---- MODULE Spec2Model ----
(***************************************************************************)
(* Model of src/game.js: the simulation core of a three-lane runner.      *)
(*                                                                         *)
(* Numbers.  The source computes in binary floating point; the model      *)
(* computes the same expressions exactly, on integers, in these units:    *)
(*   time (ts, lastTime, dt, slideTimer, spawnTimer)  1 ms                 *)
(*   laneProgress                                     1/LANE_SWITCH_TIME   *)
(*   vy                                               1/VU px/s            *)
(*   y and every height                               1/YU px              *)
(*   x and every width                                1/PX px              *)
(* so that every product and quotient of loop() is an integer.            *)
(***************************************************************************)
EXTENDS Integers, Sequences, FiniteSets, TLC

VARIABLES
    \* module state, src/game.js:21-34
    running, score, lastTime,
    laneIndex, laneProgress, laneFrom, laneTo,
    y, vy, sliding, slideTimer,
    obstacles, spawnTimer,
    restartHidden,      \* restartBtn.hidden
    \* the host's animation-frame scheduler
    queued,             \* loop callbacks registered for the next animation frame
    batch,              \* callbacks of the current animation frame not yet run
    frameTs,            \* timestamp the host gave the latest animation frame, in
                        \* ms since the latest reset(): loop() reads ts only in
                        \* ts - lastTime, and reset() sets lastTime to 0
    \* observation of the latest step
    lastOp,             \* the handler that ran last
    dt,                 \* when the last step was a loop() call: its dt local, in ms
    ranEnded,           \* when the last step was a loop() call: it started with
                        \* running = false
    sinceSlide,         \* summed dt of the frames since the last effective slide()
                        \* while nothing else was issued; -1 otherwise
    sinceMove,          \* summed dt of the frames since laneProgress was last set
                        \* by beginLaneMove() (to 0) or by reset() (to 1, counted
                        \* as LANE_SWITCH_TIME); counted up to LANE_SWITCH_TIME
    inJump,             \* an effective jump() has not yet come back to the ground
    sinceJump,          \* summed dt of the frames of the latest jump, from the
                        \* effective jump() to the frame that ended it
    elapsed,            \* summed dt of the loop() calls since the last reset()
    nframes,            \* how many animation frames since the latest reset()
    ncmds, nresets,     \* how many commands, how many reset() calls
    lim,                \* the bounds of the run: [frames, cmds, resets, gaps]
    spawned,            \* how many obstacles spawnObstacle() has pushed since reset()
    args, ret           \* inputs and result of a pure-function application

simVars == <<running, score, lastTime, laneIndex, laneProgress, laneFrom, laneTo,
             y, vy, sliding, slideTimer, obstacles, spawnTimer, restartHidden>>
laneVars == <<laneIndex, laneProgress, laneFrom, laneTo>>
jumpVars == <<y, vy, sliding, slideTimer>>
hostVars == <<queued, batch, frameTs>>
pureVars == <<args, ret>>
flightVars == <<inJump, sinceJump>>
vars == <<simVars, hostVars, lastOp, dt, ranEnded, sinceSlide, sinceMove, flightVars,
          elapsed, nframes, ncmds, nresets, lim, spawned, pureVars>>

----------------------------------------------------------------------------
(* Bounds of the model. *)
(* Spec: a whole run, up to the collision and past it. *)
MaxFrames == 43         \* animation frames
MaxCmds == 1            \* moveLeft/moveRight/jump/slide calls
MaxResets == 1          \* reset() calls after the one that starts the program
Gaps == {40}            \* ms between two animation frames
(* SpecPlay: one command among the frames of half a second and more. *)
PlayFrames == 21
PlayCmds == 1
PlayResets == 1
PlayGaps == {25}
(* SpecMoves: several commands in every interleaving with a few frames. *)
MoveFrames == 8
MoveCmds == 3
MoveResets == 1
MoveGaps == {25}
(* SpecCalls: a whole run, and loop(ts) called directly after its end. *)
CallFrames == 44
CallCmds == 1
CallResets == 1
CallGaps == {40}
(* SpecAnyTs: loop() under timestamps in any order. *)
AnyFrames == 3
AnyCmds == 1
AnyTs == {0, 10, 20, 40, 45, 100}
(* SpecCadence: frames at one constant gap. *)
CadenceFrames == 126
CadenceCmds == 1
CadenceGaps == {16, 20, 25}
(* SpecCombo: two of jump() and slide() among the frames of a whole jump. *)
ComboFrames == 36
ComboCmds == 2
ComboGaps == {40}
(* SpecStall: short and very long gaps between the frames. *)
StallFrames == 4
StallCmds == 1
StallResets == 1
StallGaps == {4, 16, 5000}
(* SpecRewind: a run whose last frame has an earlier timestamp. *)
RewindFrames == 70
RewindCmds == 1
RewindGaps == {40}

----------------------------------------------------------------------------
(* Game constants, src/game.js:5-18. *)
MsPerSec == 1000
W == 200
H == 600
LANE_SWITCH_TIME == 150
EaseDen == LANE_SWITCH_TIME * LANE_SWITCH_TIME * LANE_SWITCH_TIME
GRAVITY == 2200
VU == MsPerSec \div 200         \* GRAVITY * 1 ms is 11/5 px/s
YU == VU * MsPerSec
PX == (4 * EaseDen) \div W      \* (W/4) px of lane distance is EaseDen units
LANES == <<(W * PX) \div 4, (W * PX) \div 2, (3 * W * PX) \div 4>>
LANE_INDEX_MIN == 0
LANE_INDEX_MAX == 2
GROUND_Y == (H - 120) * YU
JUMP_VY == (0 - 1100) * VU
SLIDE_TIME == 500
PLAYER_SPEED == 420
SPAWN_EVERY == 1000
OBSTACLE_SPEED == PLAYER_SPEED
PLAYER_W == 80 * PX
PLAYER_H == 120 * YU
PLAYER_H_SLIDE == 70 * YU
MAX_DT == 32
PRUNE_X == (0 - 150) * PX
KINDS == {"low", "tall"}

Min(a, b) == IF a < b THEN a ELSE b
Max(a, b) == IF a > b THEN a ELSE b

(* clamp() without its lower bound. *)
clampUpperOnly(v, a, b) == Min(b, v)

clamp(v, a, b) == Max(a, Min(b, v))

(* LANES is indexed from 0 in the source. *)
LaneXOf(i) == LANES[i + 1]

(* easeOutCubic(t) = 1 - (1-t)^3, as a numerator over EaseDen. *)
easeOutCubic(t) ==
    LET r == LANE_SWITCH_TIME - t
    IN  EaseDen - r * r * r

(* const laneX = LANES[laneFrom] + (LANES[laneTo]-LANES[laneFrom]) * easeOutCubic(laneProgress) *)
LaneX(from, to, progress) ==
    LaneXOf(from) + ((LaneXOf(to) - LaneXOf(from)) \div EaseDen) * easeOutCubic(progress)

currentPlayerH(s) == IF s THEN PLAYER_H_SLIDE ELSE PLAYER_H

(* onGround() against the standing height whatever the stance. *)
onGroundStanding(py, s) == py >= GROUND_Y - PLAYER_H

onGround(py, s) == py >= GROUND_Y - currentPlayerH(s)

(* collides() with closed comparisons: touching boxes collide. *)
collidesClosed(ax, ay, aw, ah, bx, by, bw, bh) ==
    ax <= bx + bw /\ ax + aw >= bx /\ ay <= by + bh /\ ay + ah >= by

collides(ax, ay, aw, ah, bx, by, bw, bh) ==
    ax < bx + bw /\ ax + aw > bx /\ ay < by + bh /\ ay + ah > by

(* spawnObstacle(): the object pushed, for the kind Math.random() chose. *)
NewObstacle(kind) ==
    LET h == IF kind = "low" THEN 70 * YU ELSE 120 * YU
    IN  [x |-> (W + 100) * PX, y |-> GROUND_Y - h, w |-> 80 * PX, h |-> h, kind |-> kind]

(* obstacles.splice(i, 1) *)
Splice(s, i) == SubSeq(s, 1, i - 1) \o SubSeq(s, i + 1, Len(s))

(* for (let i=obstacles.length-1; i>=0; i--) { o.x -= OBSTACLE_SPEED * dt; if (o.x < -150) splice } *)
RECURSIVE MoveObstacles(_, _, _)
MoveObstacles(obs, i, d) ==
    IF i < 1 THEN obs
    ELSE LET nx == obs[i].x - ((OBSTACLE_SPEED * PX) \div MsPerSec) * d
             moved == [obs EXCEPT ![i].x = nx]
         IN  IF nx < PRUNE_X THEN MoveObstacles(Splice(moved, i), i - 1, d)
             ELSE MoveObstacles(moved, i - 1, d)

(* The collision scan starting at the second obstacle. *)
RECURSIVE HitSkipsFirst(_, _, _, _, _)
HitSkipsFirst(obs, i, laneX, py, ph) ==
    IF i > Len(obs) THEN FALSE
    ELSE IF i > 1 /\ collides(laneX - PLAYER_W \div 2, py, PLAYER_W, ph,
                              obs[i].x - obs[i].w \div 2, obs[i].y, obs[i].w, obs[i].h)
         THEN TRUE
         ELSE HitSkipsFirst(obs, i + 1, laneX, py, ph)

(* for (const o of obstacles) if (collides(player box, o box)) { ...; break; } *)
RECURSIVE HitFrom(_, _, _, _, _)
HitFrom(obs, i, laneX, py, ph) ==
    IF i > Len(obs) THEN FALSE
    ELSE IF collides(laneX - PLAYER_W \div 2, py, PLAYER_W, ph,
                     obs[i].x - obs[i].w \div 2, obs[i].y, obs[i].w, obs[i].h)
         THEN TRUE
         ELSE HitFrom(obs, i + 1, laneX, py, ph)

(* dt without `if (!lastTime) lastTime = ts`. *)
FrameDtNoSentinel(ts, last) == Min(MAX_DT, ts - last)

(* dt without its Math.min(0.032, ...). *)
FrameDtUnclamped(ts, last) == ts - (IF last = 0 THEN ts ELSE last)

(* const dt = Math.min(0.032, (ts - lastTime)/1000), after `if (!lastTime) lastTime = ts` *)
FrameDt(ts, last) == Min(MAX_DT, ts - (IF last = 0 THEN ts ELSE last))

(* The score update without its `if (running)`. *)
ScoreAfterUnguarded(r, s, d) == s + ((200 * d) \div MsPerSec)

(* if (running) score += Math.floor(200 * dt) *)
ScoreAfter(r, s, d) == IF r THEN s + ((200 * d) \div MsPerSec) ELSE s

(* if (laneProgress < 1) laneProgress = Math.min(1, laneProgress + dt / LANE_SWITCH_TIME) *)
ProgressAfter(p, d) == IF p < LANE_SWITCH_TIME THEN Min(LANE_SWITCH_TIME, p + d) ELSE p

(* The ground clamp without its `vy = 0`. *)
PhysicsKeepsVy(py, pvy, s, d) ==
    LET v1 == pvy + ((GRAVITY * VU) \div MsPerSec) * d
        y1 == py + v1 * d
        groundTop == GROUND_Y - currentPlayerH(s)
    IN  IF y1 > groundTop THEN <<groundTop, v1>> ELSE <<y1, v1>>

(* vy += GRAVITY * dt; y += vy * dt; clamp to groundTop.  <<y, vy>> after. *)
PhysicsAfter(py, pvy, s, d) ==
    LET v1 == pvy + ((GRAVITY * VU) \div MsPerSec) * d
        y1 == py + v1 * d
        groundTop == GROUND_Y - currentPlayerH(s)
    IN  IF y1 > groundTop THEN <<groundTop, 0>> ELSE <<y1, v1>>

(* The slide timer test written `slideTimer < 0`. *)
SlideAfterStrict(s, t, d) ==
    IF s THEN <<(t - d) >= 0, t - d>> ELSE <<s, t>>

(* if (sliding) { slideTimer -= dt; if (slideTimer <= 0) sliding = false; }  <<sliding, slideTimer>> after. *)
SlideAfter(s, t, d) ==
    IF s THEN <<(t - d) > 0, t - d>> ELSE <<s, t>>

(* spawnTimer += dt; if (spawnTimer >= SPAWN_EVERY) { spawnTimer = 0; spawnObstacle(); } *)
SpawnDue(t, d) == t + d >= SPAWN_EVERY

----------------------------------------------------------------------------
(* State after the script has run: the module-level initialisers            *)
(* (src/game.js:21-34) followed by the reset() call of src/game.js:235.     *)
InitSim ==
    /\ running = TRUE /\ score = 0 /\ lastTime = 0
    /\ laneIndex = 1 /\ laneFrom = 1 /\ laneTo = 1 /\ laneProgress = LANE_SWITCH_TIME
    /\ y = GROUND_Y - PLAYER_H /\ vy = 0
    /\ sliding = FALSE /\ slideTimer = 0
    /\ obstacles = <<>> /\ spawnTimer = 0
    /\ restartHidden = TRUE

InitObs ==
    /\ lastOp = "reset" /\ dt = 0 /\ ranEnded = FALSE /\ sinceSlide = -1
    /\ sinceMove = LANE_SWITCH_TIME /\ inJump = FALSE /\ sinceJump = 0
    /\ elapsed = 0 /\ nframes = 0 /\ ncmds = 0 /\ nresets = 0 /\ spawned = 0

NoArgs == [ax |-> 0, ay |-> 0, aw |-> 0, ah |-> 0, bx |-> 0, by |-> 0, bw |-> 0, bh |-> 0]

InitGame ==
    /\ InitSim /\ InitObs
    /\ queued = 1 /\ batch = 0 /\ frameTs = 0
    /\ args = NoArgs /\ ret = FALSE

Init ==
    /\ InitGame
    /\ lim = [frames |-> MaxFrames, cmds |-> MaxCmds, resets |-> MaxResets, gaps |-> Gaps]

(* reset() leaving laneProgress at its module-level initial value. *)
ResetProgressUnsettled == LANE_SWITCH_TIME - LANE_SWITCH_TIME

(* laneProgress = 1 in reset() *)
ResetProgress == LANE_SWITCH_TIME

(* function reset() *)
Reset ==
    /\ batch = 0
    /\ nresets < lim.resets
    /\ running' = TRUE
    /\ score' = 0
    /\ lastTime' = 0
    /\ laneIndex' = 1 /\ laneFrom' = 1 /\ laneTo' = 1 /\ laneProgress' = ResetProgress
    /\ y' = GROUND_Y - PLAYER_H
    /\ vy' = 0
    /\ sliding' = FALSE /\ slideTimer' = 0
    /\ obstacles' = <<>>
    /\ spawnTimer' = 0
    /\ restartHidden' = TRUE
    /\ queued' = queued + 1             \* requestAnimationFrame(loop)
    /\ lastOp' = "reset" /\ sinceSlide' = -1 /\ spawned' = 0 /\ elapsed' = 0
    /\ sinceMove' = LANE_SWITCH_TIME /\ inJump' = FALSE /\ sinceJump' = 0
    /\ dt' = 0 /\ ranEnded' = FALSE
    /\ nresets' = nresets + 1
    /\ frameTs' = 0 /\ nframes' = 0     \* time and frames are counted from here
    /\ UNCHANGED <<batch, ncmds, lim, pureVars>>

(* function beginLaneMove(newIndex) *)
beginLaneMove(newIndex) ==
    LET n == clamp(newIndex, LANE_INDEX_MIN, LANE_INDEX_MAX)
    IN  IF n = laneTo
        THEN UNCHANGED <<laneVars, sinceMove>>
        ELSE /\ laneFrom' = laneIndex
             /\ laneTo' = n
             /\ laneIndex' = n
             /\ laneProgress' = 0
             /\ sinceMove' = 0

(* What every command leaves alone, and what it records. *)
Command(op) ==
    /\ batch = 0
    /\ ncmds < lim.cmds
    /\ ncmds' = ncmds + 1
    /\ lastOp' = op
    /\ dt' = 0 /\ ranEnded' = FALSE
    /\ UNCHANGED <<running, score, lastTime, obstacles, spawnTimer, restartHidden,
                   hostVars, elapsed, nframes, nresets, lim, spawned, pureVars>>

(* function moveLeft() *)
MoveLeft ==
    /\ Command("moveLeft")
    /\ beginLaneMove(laneIndex - 1)
    /\ sinceSlide' = -1
    /\ UNCHANGED <<jumpVars, flightVars>>

(* function moveRight() *)
MoveRight ==
    /\ Command("moveRight")
    /\ beginLaneMove(laneIndex + 1)
    /\ sinceSlide' = -1
    /\ UNCHANGED <<jumpVars, flightVars>>

(* function jump() *)
Jump ==
    /\ Command("jump")
    /\ IF onGround(y, sliding) /\ running
       THEN /\ sliding' = FALSE
            /\ vy' = JUMP_VY
            /\ inJump' = TRUE /\ sinceJump' = 0
            /\ UNCHANGED <<y, slideTimer>>
       ELSE UNCHANGED <<jumpVars, flightVars>>
    /\ sinceSlide' = -1
    /\ UNCHANGED <<laneVars, sinceMove>>

(* slide() without its `!sliding` test. *)
SlideRestarts ==
    /\ Command("slide")
    /\ IF running /\ onGround(y, sliding)
       THEN /\ sliding' = TRUE
            /\ slideTimer' = SLIDE_TIME
            /\ sinceSlide' = 0
            /\ UNCHANGED <<y, vy>>
       ELSE /\ sinceSlide' = -1
            /\ UNCHANGED jumpVars
    /\ UNCHANGED <<laneVars, sinceMove, flightVars>>

(* function slide() *)
Slide ==
    /\ Command("slide")
    /\ IF running /\ ~sliding /\ onGround(y, sliding)
       THEN /\ sliding' = TRUE
            /\ slideTimer' = SLIDE_TIME
            /\ sinceSlide' = 0
            /\ UNCHANGED <<y, vy>>
       ELSE /\ sinceSlide' = -1
            /\ UNCHANGED jumpVars
    /\ UNCHANGED <<laneVars, sinceMove, flightVars>>

(* function loop(ts), one call.  q and b are the host's two callback lists   *)
(* as the call finds them; its requestAnimationFrame(loop) registers the     *)
(* callback for the next animation frame.                                    *)
LoopAt(ts, q, b) ==
    LET d == FrameDt(ts, lastTime)
        p == ProgressAfter(laneProgress, d)
        laneX == LaneX(laneFrom, laneTo, p)
        phys == PhysicsAfter(y, vy, sliding, d)
        sl == SlideAfter(sliding, slideTimer, d)
        due == SpawnDue(spawnTimer, d)
    IN  \E kind \in KINDS :
        LET obs0 == IF due THEN Append(obstacles, NewObstacle(kind)) ELSE obstacles
            obs1 == MoveObstacles(obs0, Len(obs0), d)
            hit == running /\ HitFrom(obs1, 1, laneX, phys[1], currentPlayerH(sl[1]))
        IN  /\ lastTime' = ts
            /\ dt' = d
            /\ score' = ScoreAfter(running, score, d)
            /\ laneProgress' = p
            /\ y' = phys[1] /\ vy' = phys[2]
            /\ sliding' = sl[1] /\ slideTimer' = sl[2]
            /\ spawnTimer' = IF due THEN 0 ELSE spawnTimer + d
            /\ spawned' = IF due THEN spawned + 1 ELSE spawned
            /\ obstacles' = obs1
            /\ running' = (running /\ ~hit)
            /\ restartHidden' = (restartHidden /\ ~hit)
            /\ queued' = q + (IF running /\ ~hit THEN 1 ELSE 0)
            /\ batch' = b
            /\ frameTs' = ts
            /\ lastOp' = "loop"
            /\ ranEnded' = ~running
            /\ sinceSlide' = IF sinceSlide >= 0 /\ sinceSlide < SLIDE_TIME
                             THEN sinceSlide + d ELSE -1
            /\ sinceMove' = Min(LANE_SWITCH_TIME, sinceMove + d)
            /\ inJump' = (inJump /\ ~(phys[1] = GROUND_Y - currentPlayerH(sl[1])
                                      /\ phys[2] = 0))
            /\ sinceJump' = IF inJump THEN sinceJump + d ELSE sinceJump
            /\ elapsed' = elapsed + d
            /\ UNCHANGED <<laneIndex, laneFrom, laneTo, ncmds, nresets, lim, pureVars>>

(* The host runs the callbacks registered before an animation frame one     *)
(* after the other with the frame's timestamp, and gives a later frame a    *)
(* later timestamp.                                                          *)
Loop ==
    /\ batch + queued > 0
    /\ IF batch > 0
       THEN /\ LoopAt(frameTs, queued, batch - 1)
            /\ UNCHANGED nframes
       ELSE /\ nframes < lim.frames
            /\ \E g \in lim.gaps : LoopAt(frameTs + g, 0, queued - 1)
            /\ nframes' = nframes + 1

Next == Loop \/ MoveLeft \/ MoveRight \/ Jump \/ Slide \/ Reset

Spec == Init /\ [][Next]_vars

InitPlay ==
    /\ InitGame
    /\ lim = [frames |-> PlayFrames, cmds |-> PlayCmds, resets |-> PlayResets,
              gaps |-> PlayGaps]

SpecPlay == InitPlay /\ [][Next]_vars

InitMoves ==
    /\ InitGame
    /\ lim = [frames |-> MoveFrames, cmds |-> MoveCmds, resets |-> MoveResets,
              gaps |-> MoveGaps]

SpecMoves == InitMoves /\ [][Next]_vars

(* One constant gap between the frames of the whole run. *)
InitCadence ==
    /\ InitGame
    /\ \E g \in CadenceGaps :
          lim = [frames |-> CadenceFrames, cmds |-> CadenceCmds, resets |-> 0, gaps |-> {g}]

NextCadence == Loop \/ Jump \/ Slide

SpecCadence == InitCadence /\ [][NextCadence]_vars

(* loop(ts) called with any timestamp, later or earlier than the one before. *)
LoopAny ==
    /\ nframes < lim.frames
    /\ \E ts \in AnyTs : LoopAt(ts, queued, batch)
    /\ nframes' = nframes + 1

InitAnyTs ==
    /\ InitGame
    /\ lim = [frames |-> AnyFrames, cmds |-> AnyCmds, resets |-> 0, gaps |-> {}]

NextAnyTs == LoopAny \/ MoveLeft \/ Jump \/ Slide

SpecAnyTs == InitAnyTs /\ [][NextAnyTs]_vars

(* loop(ts) called directly, with a later ts, when the host has no callback *)
(* left to run: the run has ended.                                          *)
LoopCall ==
    /\ nframes < lim.frames
    /\ batch = 0 /\ queued = 0
    /\ \E g \in lim.gaps : LoopAt(frameTs + g, queued, batch)
    /\ nframes' = nframes + 1

InitCalls ==
    /\ InitGame
    /\ lim = [frames |-> CallFrames, cmds |-> CallCmds, resets |-> CallResets,
              gaps |-> CallGaps]

NextCalls == Loop \/ LoopCall \/ MoveLeft \/ MoveRight \/ Jump \/ Slide \/ Reset

SpecCalls == InitCalls /\ [][NextCalls]_vars

InitStall ==
    /\ InitGame
    /\ lim = [frames |-> StallFrames, cmds |-> StallCmds, resets |-> StallResets,
              gaps |-> StallGaps]

SpecStall == InitStall /\ [][Next]_vars

InitCombo ==
    /\ InitGame
    /\ lim = [frames |-> ComboFrames, cmds |-> ComboCmds, resets |-> 0, gaps |-> ComboGaps]

NextCombo == Loop \/ Jump \/ Slide

SpecCombo == InitCombo /\ [][NextCombo]_vars

(* The host runs every callback registered with requestAnimationFrame. *)
SpecComboFair == SpecCombo /\ WF_vars(Loop)

(* The host delivers an animation frame whose timestamp is earlier than the *)
(* one before (src/game.js:166 reads ts as given); it is the last frame of  *)
(* the run.                                                                 *)
LoopEarlier ==
    /\ batch = 0 /\ queued > 0
    /\ nframes < lim.frames
    /\ \E g \in lim.gaps : frameTs - g > 0 /\ LoopAt(frameTs - g, 0, queued - 1)
    /\ nframes' = lim.frames

InitRewind ==
    /\ InitGame
    /\ lim = [frames |-> RewindFrames, cmds |-> RewindCmds, resets |-> 0,
              gaps |-> RewindGaps]

NextRewind == Loop \/ LoopEarlier \/ MoveLeft \/ Jump \/ Slide

SpecRewind == InitRewind /\ [][NextRewind]_vars

----------------------------------------------------------------------------
(* collides() applied to boxes drawn from small sets, in px. *)
BoxesA == [ax : {100, 140}, ay : {100, 130}, aw : {80}, ah : {70, 120}]
BoxesB == [bx : {20, 100, 180, 300}, by : {30, 100, 130, 220, 250}, bw : {80}, bh : {70, 120}]

InitCollides ==
    /\ InitGame
    /\ lastOp = "reset"
    /\ lim = [frames |-> 0, cmds |-> 0, resets |-> 0, gaps |-> {}]

ChooseBoxes ==
    /\ lastOp # "boxes"
    /\ \E a \in BoxesA, b \in BoxesB :
          args' = [ax |-> a.ax, ay |-> a.ay, aw |-> a.aw, ah |-> a.ah,
                   bx |-> b.bx, by |-> b.by, bw |-> b.bw, bh |-> b.bh]
    /\ lastOp' = "boxes"
    /\ UNCHANGED <<simVars, hostVars, dt, ranEnded, sinceSlide, sinceMove, flightVars,
                   elapsed, nframes, ncmds, nresets, lim, spawned, ret>>

ApplyCollides ==
    /\ lastOp = "boxes"
    /\ ret' = collides(args.ax, args.ay, args.aw, args.ah, args.bx, args.by, args.bw, args.bh)
    /\ lastOp' = "collides"
    /\ UNCHANGED <<simVars, hostVars, dt, ranEnded, sinceSlide, sinceMove, flightVars,
                   elapsed, nframes, ncmds, nresets, lim, spawned, args>>

NextCollides == ChooseBoxes \/ ApplyCollides

SpecCollides == InitCollides /\ [][NextCollides]_vars

----------------------------------------------------------------------------
(* Properties of the program, by number. *)

CommandOps == {"moveLeft", "moveRight", "jump", "slide"}

(* C1: once running is false it stays false, and score keeps its value,    *)
(* across every loop() call and every command, until reset() is called.    *)
(* Checked under SpecCalls, where loop() is called after the run ended.    *)
C1_EndedStaysEnded ==
    [][(~running /\ lastOp' # "reset") => (~running' /\ score' = score)]_vars

(* A loop() call with dt > 0 ran after the collision. *)
C1_Witness == ~running /\ lastOp = "loop" /\ ranEnded /\ dt > 0 /\ score > 0

(* C2: collides() is true exactly when the boxes overlap with positive     *)
(* extent on both axes; boxes that only touch do not collide; the two      *)
(* boxes of the spec's example collide and the far one does not.           *)
Overlap1D(a, la, b, lb) == Min(a + la, b + lb) - Max(a, b) > 0

Touching(r) ==
    \/ r.ax + r.aw = r.bx \/ r.bx + r.bw = r.ax
    \/ r.ay + r.ah = r.by \/ r.by + r.bh = r.ay

C2_CollidesIsOverlap ==
    lastOp = "collides" =>
        /\ ret = (/\ Overlap1D(args.ax, args.aw, args.bx, args.bw)
                  /\ Overlap1D(args.ay, args.ah, args.by, args.bh))
        /\ Touching(args) => ~ret
        /\ (args = [ax |-> 100, ay |-> 100, aw |-> 80, ah |-> 120,
                    bx |-> 100, by |-> 130, bw |-> 80, bh |-> 70]) => ret
        /\ (args = [ax |-> 100, ay |-> 100, aw |-> 80, ah |-> 120,
                    bx |-> 300, by |-> 100, bw |-> 80, bh |-> 120]) => ~ret

(* Boxes that share the edge ax+aw = bx and overlap vertically. *)
C2_Witness ==
    /\ lastOp = "collides" /\ ~ret
    /\ args.ax + args.aw = args.bx
    /\ Overlap1D(args.ay, args.ah, args.by, args.bh)

(* C3: laneIndex, laneFrom and laneTo are in {0,1,2} and laneIndex = laneTo. *)
C3_LanesInRange ==
    /\ laneIndex \in LANE_INDEX_MIN..LANE_INDEX_MAX
    /\ laneFrom \in LANE_INDEX_MIN..LANE_INDEX_MAX
    /\ laneTo \in LANE_INDEX_MIN..LANE_INDEX_MAX
    /\ laneIndex = laneTo

(* A second moveLeft() in lane 0: the move before it is still in flight    *)
(* (a moveLeft() that moves sets laneProgress to 0 and laneFrom to 1).      *)
C3_Witness ==
    /\ lastOp = "moveLeft" /\ ncmds = 2
    /\ laneIndex = 0 /\ laneFrom = 1 /\ laneProgress > 0

(* C4: at the end of every loop() call, y <= GROUND_Y - currentPlayerH()   *)
(* for the stance the player has then.                                     *)
C4_GroundedAtFrameEnd ==
    lastOp = "loop" => y <= GROUND_Y - currentPlayerH(sliding)

C6_NoFrameWhileEnded == lastOp = "loop" => ~ranEnded

(* C7: a command issued while running is false changes no state variable. *)
C7_CommandsNoOpWhenEnded ==
    [][(~running /\ lastOp' \in CommandOps) => UNCHANGED <<laneVars, jumpVars>>]_vars

(* C8: the dt of every loop() call is within [0, 0.032 s], and a call with *)
(* a timestamp not later than lastTime advances nothing.                   *)
C8_DtInRange ==
    [][lastOp' = "loop" =>
         /\ 0 <= dt' /\ dt' <= MAX_DT
         /\ (frameTs' <= lastTime =>
               UNCHANGED <<score, laneProgress, y, vy, slideTimer, spawnTimer, obstacles>>)]_vars

(* C9: with a constant dt, when the summed dt is N * SPAWN_EVERY exactly   *)
(* N obstacles have been spawned.                                          *)
C9_ExactlyN ==
    (lastOp = "loop" /\ elapsed > 0 /\ elapsed % SPAWN_EVERY = 0)
        => spawned = elapsed \div SPAWN_EVERY

(* C10: after an effective slide() and no other command, sliding is true   *)
(* at the end of every frame while the summed dt is below SLIDE_TIME and   *)
(* false at the end of the first frame where it is SLIDE_TIME or more.     *)
(* Checked under SpecCadence: frames of 16, 20 or 25 ms.                   *)
C10_SlideExpiry ==
    (lastOp = "loop" /\ sinceSlide >= 0) => (sliding <=> sinceSlide < SLIDE_TIME)

(* The frame at which the summed dt is exactly SLIDE_TIME, after a slide()  *)
(* issued in the middle of the run.                                         *)
C10_Witness ==
    /\ lastOp = "loop" /\ sinceSlide = SLIDE_TIME /\ ~sliding
    /\ elapsed > SLIDE_TIME

(* C11: at the end of every loop() call every obstacle has x within         *)
(* [-150, W+100]; the obstacles the call moved below -150 are gone from the *)
(* list at its end, the others are all kept, in their order, and a spawned  *)
(* obstacle comes after them.                                               *)
NotPastLeft(o) == o.x >= PRUNE_X

C11_PrunedSameFrame ==
    [][lastOp' = "loop" =>
         LET step == ((OBSTACLE_SPEED * PX) \div MsPerSec) * dt'
             moved == [i \in 1..Len(obstacles) |-> [obstacles[i] EXCEPT !.x = @ - step]]
             kept == SelectSeq(moved, NotPastLeft)
         IN  /\ \A i \in 1..Len(obstacles') :
                   /\ obstacles'[i].x >= PRUNE_X
                   /\ obstacles'[i].x <= (W + 100) * PX
             /\ IF spawned' = spawned
                THEN obstacles' = kept
                ELSE /\ Len(obstacles') = Len(kept) + 1
                     /\ SubSeq(obstacles', 1, Len(kept)) = kept]_vars

(* C12: laneProgress stays within [0,1]; and once the frames since the      *)
(* latest effective lane move have a summed dt of LANE_SWITCH_TIME or more, *)
(* laneProgress is 1 and laneX is LANES[laneTo].                            *)
C12_LaneSettles ==
    /\ 0 <= laneProgress /\ laneProgress <= LANE_SWITCH_TIME
    /\ (lastOp = "loop" /\ sinceMove >= LANE_SWITCH_TIME) =>
          /\ laneProgress = LANE_SWITCH_TIME
          /\ LaneX(laneFrom, laneTo, laneProgress) = LaneXOf(laneTo)

(* C13: jump() called while the player is not grounded, and slide() called  *)
(* while sliding or while not grounded, leave y, vy, sliding and slideTimer *)
(* as they were.                                                            *)
C13_FailedGuardNoOp ==
    [][/\ (lastOp' = "jump" /\ ~onGround(y, sliding)) => UNCHANGED jumpVars
       /\ (lastOp' = "slide" /\ (sliding \/ ~onGround(y, sliding)))
             => UNCHANGED jumpVars]_vars

(* A second slide() during a slide that has come down to its ground line.   *)
C13_Witness ==
    /\ lastOp = "slide" /\ ncmds = 2 /\ sliding
    /\ 0 < slideTimer /\ slideTimer < SLIDE_TIME
    /\ y = GROUND_Y - PLAYER_H_SLIDE

(* C14: under timestamps that never decrease, score is a natural number,    *)
(* no loop() call lowers it, and no loop() call raises it by more than      *)
(* floor(200 * 0.032) = 6.                                                  *)
C14_ScoreSteps ==
    [][/\ score \in Nat /\ score' \in Nat
       /\ lastOp' = "loop" =>
             /\ score' >= score
             /\ score' <= score + ((200 * MAX_DT) \div MsPerSec)]_vars

(* The second frame came 5000 ms after the first and added 6. *)
C14_Witness ==
    /\ lastOp = "loop" /\ nframes = 2 /\ frameTs > 5000
    /\ dt = MAX_DT /\ score = 6

(* C15: a loop() call that starts with running = true ends with running =   *)
(* false exactly when some obstacle of the list it leaves, at whatever      *)
(* index, overlaps the player's box as the call leaves it.                  *)
PlayerHits(o) ==
    LET laneX == LaneX(laneFrom, laneTo, laneProgress)
    IN  /\ Overlap1D(laneX - PLAYER_W \div 2, PLAYER_W, o.x - o.w \div 2, o.w)
        /\ Overlap1D(y, currentPlayerH(sliding), o.y, o.h)

C16_OnePending == queued + batch <= 1

(* C17: the first frame with dt > 0 after an effective jump() ends with the *)
(* player above the ground line of its stance and vy < 0.                   *)
C17_JumpTakesOff ==
    [][(inJump /\ sinceJump = 0 /\ lastOp' = "loop" /\ dt' > 0) =>
         (y' < GROUND_Y - currentPlayerH(sliding') /\ vy' < 0)]_vars

(* C18: an effective slide() of a player standing on GROUND_Y - PLAYER_H    *)
(* leaves it not grounded, and while the slide lasts and y is above         *)
(* GROUND_Y - PLAYER_H_SLIDE a jump() changes nothing.                      *)
C18_SlideLiftsGround ==
    [][/\ (lastOp' = "slide" /\ sinceSlide' = 0 /\ y = GROUND_Y - PLAYER_H)
             => ~onGround(y', sliding')
       /\ (sliding /\ y < GROUND_Y - PLAYER_H_SLIDE /\ lastOp' = "jump")
             => UNCHANGED jumpVars]_vars

(* A jump() while the sliding player is still coming down. *)
C18_Witness ==
    /\ lastOp = "jump" /\ sliding /\ vy > 0
    /\ y > GROUND_Y - PLAYER_H /\ y < GROUND_Y - PLAYER_H_SLIDE

(* C19: after an effective jump(), while frames with dt > 0 keep coming and *)
(* the run goes on, a frame ends with the player on the ground line of its  *)
(* stance and vy = 0, before the summed dt reaches 2 * |JUMP_VY| / GRAVITY; *)
(* and as long as the player is in the air no jump() or slide() changes vy, *)
(* sliding or slideTimer.  The frames of a run are bounded here: the        *)
(* landing is asked of the jumps that leave the frames of a whole flight.   *)
FlightTime == ((0 - 2) * JUMP_VY * MsPerSec) \div (GRAVITY * VU)
FlightFrames == FlightTime \div MAX_DT + 2

C19_JumpLands ==
    /\ (inJump /\ sinceJump = 0 /\ nframes + FlightFrames <= lim.frames)
          ~> (~inJump \/ ~running)
    /\ [][/\ inJump' => sinceJump' < FlightTime
          /\ (inJump /\ y < GROUND_Y - currentPlayerH(sliding)
                /\ lastOp' \in {"jump", "slide"})
                => UNCHANGED <<vy, sliding, slideTimer>>]_vars

(* The frame that lands a jump from standing, after a whole flight. *)
C19_Witness ==
    /\ lastOp = "loop" /\ running /\ ~inJump
    /\ sinceJump >= FlightTime - MAX_DT
    /\ y = GROUND_Y - PLAYER_H /\ vy = 0

(* C20: the first loop() call after a reset() has dt = 0, leaves score, y,  *)
(* vy, laneProgress, slideTimer, spawnTimer and obstacles as they were,     *)
(* sets lastTime to its timestamp and registers the next callback.          *)
C20_FirstFrameZero ==
    [][(nframes = 0 /\ batch = 0 /\ lastOp' = "loop") =>
         /\ dt' = 0
         /\ UNCHANGED <<score, y, vy, laneProgress, slideTimer, spawnTimer, obstacles>>
         /\ lastTime' = frameTs'
         /\ running' /\ queued' >= 1]_vars

(* The first callback of the first frame after a reset() that found a       *)
(* callback pending.                                                        *)
C20_Witness ==
    /\ lastOp = "loop" /\ nresets = 1 /\ nframes = 1 /\ batch = 1
    /\ dt = 0 /\ lastTime = frameTs
====
